---- MODULE Spec2Model ----
(***************************************************************************)
(* Model of the chat server (src/src/main.rs, channel.rs, voice.rs,        *)
(* auth.rs, client.rs): the session registry `clients`, the channel        *)
(* directory, the voice registry, the credential database, the admission  *)
(* counter, and one handler thread per admitted connection.                *)
(*                                                                         *)
(* Every std::sync::Mutex critical section that performs no blocking call  *)
(* (all sections of `clients`, `connection_count`, `auth_manager`, and the *)
(* block-scoped sections of `channel_manager` and `voice_manager`) is one  *)
(* atomic action.  The sections of `channel_manager` and `voice_manager`   *)
(* that stay open across stream writes or across further lock requests     *)
(* (handle_join_command, handle_voice_command, handle_leave_command,       *)
(* handle_create_command, handle_users_command, show_channels) are modelled*)
(* with an explicit owner variable.  std::sync::Mutex is not reentrant: a  *)
(* thread that locks a mutex it already owns never returns from lock();    *)
(* the model blocks it (the behaviour of the futex based implementation).  *)
(***************************************************************************)
EXTENDS Integers, Sequences, FiniteSets, TLC

VARIABLES
    connection_count,  \* Server.connection_count
    clients,           \* Server.clients: session id -> [name, current_channel]
    channels,          \* ChannelManager.channels: name -> [channel_type, users]
    config_file,       \* the content of channels.json
    sessions,          \* VoiceChannelManager.sessions: name -> VoiceSession
    database,          \* AuthManager.database.users: name -> password hash
    chanLock,          \* owner of the channel_manager mutex (0: free)
    voiceLock,         \* owner of the voice_manager mutex (0: free)
    pc,                \* position of each handler thread
    user,              \* authenticated_user.name of each handler
    cid,               \* client_id of each handler
    loc,               \* locals of the command in progress
    bc,                \* locals of the broadcast_to_channel call in progress
    reply,             \* what the handler wrote last to its own stream
    nextId,            \* number of Uuids generated so far
    accepts,           \* connections the listener may still admit in this run
    reads              \* chat lines and commands the handlers may still read

vars == <<connection_count, clients, channels, config_file, sessions, database,
          chanLock, voiceLock, pc, user, cid, loc, bc, reply, nextId, accepts,
          reads>>

----------------------------------------------------------------------------
(* Bounds and constants *)

\* main.rs sets 100; the model runs the same code with a smaller cap
MAX_CONNECTIONS == 3

\* connections the listener admits in one run
MaxAccepts == 2

\* chat lines and commands the handlers read in one run
MaxReads == 2

\* the same two budgets of the runs that start with the server at capacity
MaxFullAccepts == 1
MaxFullReads == 1

\* number of distinct bcrypt salts
NumSalts == 1

Handlers == 1..MAX_CONNECTIONS

\* Option::None of a channel name, of a client id, of a user name
None == "None"
NoId == 0
NoUser == <<>>

\* what is written to a stream: a text with the values formatted into it
Reply(text, arg, list) == [text |-> text, arg |-> arg, list |-> list]
NoReply == Reply(None, None, <<>>)

\* handle_client after handle_command returned Err
CommandFailed == Reply("Command failed", None, <<>>)

\* what the client is sent by write_all(text)? : the text, or, when the write
\* fails and handle_command returns Err, handle_client's notice
Written(text) == IF text = NoReply THEN {NoReply} ELSE {text, CommandFailed}

NoBc == [chan |-> None]
NoLoc == [cmd |-> None]

\* Identities and passwords are character sequences.
alice == <<"a", "l", "i", "c", "e">>
bob == <<"b", "o", "b">>
password1 == <<"p", "a", "s", "s", "w", "o", "r", "d", "1">>
hunter22 == <<"h", "u", "n", "t", "e", "r", "2", "2">>

USERNAME_MAX == 32
PASSWORD_MIN == 8
PASSWORD_MAX == 128

Letters == {"a", "b", "c", "d", "e", "h", "i", "l", "n", "o", "p", "r", "s",
            "t", "u", "w", "x", "A", "Z"}
Digits == {"0", "1", "2", "9"}
\* the characters of the regular expression ^[a-zA-Z0-9_-]+$
UsernameChars == Letters \cup Digits \cup {"_", "-"}

Usernames == {alice, bob, <<>>, <<"a", " ", "b">>, <<"b", "o", "b", "!">>,
              [i \in 1..USERNAME_MAX |-> "a"],
              [i \in 1..(USERNAME_MAX + 1) |-> "a"]}
Passwords == {password1, hunter22, <<>>, <<"p", "w">>,
              [i \in 1..(PASSWORD_MIN - 1) |-> "x"],
              [i \in 1..(PASSWORD_MAX + 1) |-> "x"]}
Salts == 1..NumSalts

\* what the clients of the server type at the prompts
Credentials == {<<alice, password1>>, <<bob, password1>>, <<bob, hunter22>>,
                <<bob, <<"p", "w">> >>, <<<<"b", "o", "b", "!">>, password1>>,
                <<<<>>, password1>>}

----------------------------------------------------------------------------
(* auth.rs *)

Ok(v) == [ok |-> TRUE, val |-> v]
Err(e) == [ok |-> FALSE, err |-> e]

validate_username(username) ==
    IF Len(username) = 0 THEN Err("Username cannot be empty")
    ELSE IF Len(username) > USERNAME_MAX THEN Err("Username too long (max 32 characters)")
    ELSE IF \E i \in 1..Len(username) : username[i] \notin UsernameChars
         THEN Err("Username can only contain letters, numbers, underscores, and hyphens")
    ELSE Ok(TRUE)

validate_password(password) ==
    IF Len(password) = 0 THEN Err("Password cannot be empty")
    ELSE IF Len(password) < PASSWORD_MIN THEN Err("Password must be at least 8 characters long")
    ELSE IF Len(password) > PASSWORD_MAX THEN Err("Password too long (max 128 characters)")
    ELSE Ok(TRUE)

\* bcrypt::hash with the salt it drew, and bcrypt::verify
hash(password, salt) == [salt |-> salt, digest |-> password]
verify(password, stored_hash) == stored_hash.digest = password

\* AuthManager::login: the result
login(db, username, password) ==
    IF ~validate_username(username).ok THEN validate_username(username)
    ELSE IF ~validate_password(password).ok THEN validate_password(password)
    ELSE IF username \notin DOMAIN db THEN Err("Username not found")
    ELSE IF verify(password, db[username]) THEN Ok(username)
    ELSE Err("Invalid password")

\* a register that validates and answers but stores nothing
register_forgets(db, username, password, salt, saved) ==
    IF ~validate_username(username).ok
    THEN [res |-> validate_username(username), db |-> db]
    ELSE IF ~validate_password(password).ok
    THEN [res |-> validate_password(password), db |-> db]
    ELSE IF username \in DOMAIN db
    THEN [res |-> Err("Username already exists"), db |-> db]
    ELSE [res |-> Ok(username), db |-> db]

\* a register that rejects an existing username after storing the new hash
register_overwrites(db, username, password, salt, saved) ==
    IF ~validate_username(username).ok
    THEN [res |-> validate_username(username), db |-> db]
    ELSE IF ~validate_password(password).ok
    THEN [res |-> validate_password(password), db |-> db]
    ELSE LET db2 == [u \in DOMAIN db \cup {username} |->
                        IF u = username THEN hash(password, salt) ELSE db[u]]
         IN  IF username \in DOMAIN db
             THEN [res |-> Err("Username already exists"), db |-> db2]
             ELSE IF saved THEN [res |-> Ok(username), db |-> db2]
             ELSE [res |-> Err("Failed to write temporary database file"), db |-> db2]

\* AuthManager::register: the result and the database it leaves; `saved` is
\* whether save_database succeeded.
register(db, username, password, salt, saved) ==
    IF ~validate_username(username).ok
    THEN [res |-> validate_username(username), db |-> db]
    ELSE IF ~validate_password(password).ok
    THEN [res |-> validate_password(password), db |-> db]
    ELSE IF username \in DOMAIN db
    THEN [res |-> Err("Username already exists"), db |-> db]
    ELSE LET db2 == [u \in DOMAIN db \cup {username} |->
                        IF u = username THEN hash(password, salt) ELSE db[u]]
         IN  IF saved THEN [res |-> Ok(username), db |-> db2]
             ELSE [res |-> Err("Failed to write temporary database file"), db |-> db2]

----------------------------------------------------------------------------
(* channel.rs *)

Text == "Text"
Voice == "Voice"

Channel_new(channel_type) == [channel_type |-> channel_type, users |-> <<>>]

\* load_channels when channels.json does not exist
DefaultChannels ==
    [n \in {"general", "random", "voice-lobby", "gaming"} |->
        Channel_new(IF n \in {"general", "random"} THEN Text ELSE Voice)]

contains(users, username) == \E i \in 1..Len(users) : users[i] = username

\* Vec::retain(|u| u != username)
retain(users, username) == SelectSeq(users, LAMBDA u : u # username)

channel_exists(chs, name) == name \in DOMAIN chs

\* a create_channel that replaces a channel of the same name
create_channel_replace(chs, name, channel_type) ==
    [n \in DOMAIN chs \cup {name} |->
        IF n = name THEN Channel_new(channel_type) ELSE chs[n]]

\* a create_channel that gives an existing channel the requested kind
create_channel_retype(chs, name, channel_type) ==
    [n \in DOMAIN chs \cup {name} |->
        IF n \notin DOMAIN chs THEN Channel_new(channel_type)
        ELSE IF n = name THEN [chs[n] EXCEPT !.channel_type = channel_type]
        ELSE chs[n]]

\* ChannelManager::create_channel: the map it leaves
create_channel(chs, name, channel_type) ==
    IF name \in DOMAIN chs THEN chs
    ELSE [n \in DOMAIN chs \cup {name} |->
            IF n = name THEN Channel_new(channel_type) ELSE chs[n]]

join_channel(chs, channel_name, username) ==
    IF channel_name \in DOMAIN chs /\ ~contains(chs[channel_name].users, username)
    THEN [chs EXCEPT ![channel_name].users = Append(@, username)]
    ELSE chs

leave_channel(chs, channel_name, username) ==
    IF channel_name \in DOMAIN chs
    THEN [chs EXCEPT ![channel_name].users = retain(@, username)]
    ELSE chs

\* a leave_all_channels that forgets to retain
leave_all_channels_none(chs, username) == chs

\* a leave_all_channels that empties every channel the user was in
leave_all_channels_clear(chs, username) ==
    [n \in DOMAIN chs |->
        IF contains(chs[n].users, username) THEN [chs[n] EXCEPT !.users = <<>>]
        ELSE chs[n]]

\* a leave_all_channels that drops the channels it leaves empty
leave_all_channels_prune(chs, username) ==
    [n \in {k \in DOMAIN chs : retain(chs[k].users, username) # <<>>} |->
        [chs[n] EXCEPT !.users = retain(@, username)]]

leave_all_channels(chs, username) ==
    [n \in DOMAIN chs |-> [chs[n] EXCEPT !.users = retain(@, username)]]

\* ChannelManager::list_channels
list_channels(chs) ==
    {<<n, chs[n].channel_type, Len(chs[n].users)>> : n \in DOMAIN chs}

----------------------------------------------------------------------------
(* voice.rs *)

VoiceSession_new(channel) ==
    [channel |-> channel, is_muted |-> FALSE, is_deafened |-> FALSE]

join_voice_channel(vs, username, channel) ==
    [u \in DOMAIN vs \cup {username} |->
        IF u = username THEN VoiceSession_new(channel) ELSE vs[u]]

leave_voice_channel(vs, username) ==
    [u \in DOMAIN vs \ {username} |-> vs[u]]

\* VoiceChannelManager::toggle_mute: the map it leaves and what it returns
\* (Some(is_muted), or None without a session)
toggle_mute(vs, username) ==
    IF username \in DOMAIN vs
    THEN [vs |-> [vs EXCEPT ![username].is_muted = ~@],
          ret |-> Ok(~vs[username].is_muted)]
    ELSE [vs |-> vs, ret |-> Err(None)]

\* a toggle_deafen that restores the microphone when it un-deafens
toggle_deafen_unmutes(vs, username) ==
    IF username \in DOMAIN vs
    THEN [vs |-> [vs EXCEPT ![username].is_deafened = ~@,
                            ![username].is_muted = ~vs[username].is_deafened],
          ret |-> Ok(~vs[username].is_deafened)]
    ELSE [vs |-> vs, ret |-> Err(None)]

\* VoiceChannelManager::toggle_deafen: deafening also mutes
toggle_deafen(vs, username) ==
    IF username \in DOMAIN vs
    THEN [vs |-> [vs EXCEPT ![username].is_deafened = ~@,
                            ![username].is_muted =
                                IF ~vs[username].is_deafened THEN TRUE ELSE @],
          ret |-> Ok(~vs[username].is_deafened)]
    ELSE [vs |-> vs, ret |-> Err(None)]

----------------------------------------------------------------------------
(* main.rs: inputs *)

\* One read of the stream, split at whitespace.
Lines == {<<"/quit">>, <<"/help">>, <<"/channels">>, <<"/users">>, <<"/leave">>,
          <<"/join">>, <<"/join", "random">>, <<"/join", "nochan">>,
          <<"/voice">>, <<"/voice", "voice-lobby">>, <<"/voice", "general">>,
          <<"/voice", "nochan">>,
          <<"/create", "lobby">>, <<"/create", "lobby", "voice">>,
          <<"/create", "general", "voice">>, <<"/create", "lobby", "video">>,
          <<"/bogus">>, <<"/quit", "now">>, <<"hi">>,
          <<"/help", "me">>, <<"/join", "random", "extra">>}

\* the first tokens that begin with '/'
SlashTokens == {"/quit", "/help", "/channels", "/users", "/leave", "/join",
                "/voice", "/create", "/bogus"}

starts_with_slash(line) == line[1] \in SlashTokens

\* the arms of the match in handle_command
KnownCommands == {"/help", "/channels", "/join", "/voice", "/leave", "/create", "/users"}

Msg(kind, username, text) == [kind |-> kind, user |-> username, text |-> text]

----------------------------------------------------------------------------
(* main.rs: state helpers *)

\* a lookup that falls back to the channel every session starts in
get_client_current_channel_default(cl, client_id) ==
    IF client_id \in DOMAIN cl THEN cl[client_id].current_channel ELSE "general"

\* get_client_current_channel
get_client_current_channel(cl, client_id) ==
    IF client_id \in DOMAIN cl THEN cl[client_id].current_channel ELSE None

\* HashMap::remove on the session registry
remove_client(cl, client_id) == [c \in DOMAIN cl \ {client_id} |-> cl[c]]

\* HashMap::insert of Client::new's value (current_channel: Some("general"))
insert_client(cl, client_id, username) ==
    [c \in DOMAIN cl \cup {client_id} |->
        IF c = client_id THEN [name |-> username, current_channel |-> "general"]
        ELSE cl[c]]

\* handle_join_command: client.current_channel = Some(channel_name)
set_current_channel(cl, client_id, channel_name) ==
    IF client_id \in DOMAIN cl
    THEN [cl EXCEPT ![client_id].current_channel = channel_name]
    ELSE cl

\* the filter without its membership test
clients_to_notify_everyone(cl, channel_users, exclude_client_id) ==
    {c \in DOMAIN cl : exclude_client_id # c}

\* the filter without its exclusion test
clients_to_notify_with_sender(cl, channel_users, exclude_client_id) ==
    {c \in DOMAIN cl : contains(channel_users, cl[c].name)}

\* the filter of broadcast_to_channel over clients_guard.values()
clients_to_notify(cl, channel_users, exclude_client_id) ==
    {c \in DOMAIN cl : contains(channel_users, cl[c].name) /\ exclude_client_id # c}

\* Server::can_accept_connection
can_accept_connection(count) == count < MAX_CONNECTIONS

\* Server::decrement_connection_count
decrement_connection_count(count) == IF count > 0 THEN count - 1 ELSE 0

Goto(h, p) == pc' = [pc EXCEPT ![h] = p]

\* the handler thread ends: its locals are gone
ThreadEnd(h) ==
    /\ pc' = [pc EXCEPT ![h] = "idle"]
    /\ user' = [user EXCEPT ![h] = NoUser]
    /\ cid' = [cid EXCEPT ![h] = 0]
    /\ loc' = [loc EXCEPT ![h] = NoLoc]
    /\ reply' = [reply EXCEPT ![h] = NoReply]

\* a call of broadcast_to_channel; `ret` is where the caller continues
CallBroadcast(h, channel_name, message, exclude_client_id, ret) ==
    /\ pc' = [pc EXCEPT ![h] = "bc_users"]
    /\ bc' = [bc EXCEPT ![h] = [chan |-> channel_name, msg |-> message,
                                excl |-> exclude_client_id, ret |-> ret,
                                users |-> <<>>, targets |-> {}, written |-> {},
                                failed |-> {}]]

Init ==
    /\ connection_count = 0
    /\ clients = <<>>
    /\ channels = DefaultChannels
    /\ config_file = DefaultChannels
    /\ sessions = <<>>
    /\ database = [u \in {bob} |-> hash(password1, 1)]
    /\ chanLock = 0
    /\ voiceLock = 0
    /\ pc = [h \in Handlers |-> "idle"]
    /\ user = [h \in Handlers |-> NoUser]
    /\ cid = [h \in Handlers |-> 0]
    /\ loc = [h \in Handlers |-> NoLoc]
    /\ bc = [h \in Handlers |-> NoBc]
    /\ reply = [h \in Handlers |-> NoReply]
    /\ nextId = 0
    /\ accepts = MaxAccepts
    /\ reads = MaxReads

----------------------------------------------------------------------------
(* main: the accept loop *)

\* can_accept_connection and increment_connection_count succeed: spawn
Admit ==
    /\ accepts > 0
    /\ can_accept_connection(connection_count)
    /\ \E h \in Handlers :
        /\ pc[h] = "idle"
        /\ \A g \in Handlers : pc[g] = "idle" => h <= g
        /\ Goto(h, "start")
    /\ connection_count' = connection_count + 1
    /\ accepts' = accepts - 1
    /\ UNCHANGED <<clients, channels, config_file, sessions, database, chanLock,
                   voiceLock, user, cid, loc, bc, reply, nextId, reads>>

\* the stream is shut down and dropped; nothing is spawned
Refuse ==
    /\ ~can_accept_connection(connection_count)
    /\ UNCHANGED vars

----------------------------------------------------------------------------
(* handle_client: set-up *)

\* set_read_timeout(..)? fails: return Err
SetTimeoutFail(h) ==
    /\ pc[h] = "start"
    /\ ThreadEnd(h)
    /\ UNCHANGED <<connection_count, clients, channels, config_file, sessions,
                   database, chanLock, voiceLock, bc, nextId, accepts, reads>>

\* authenticate_client returned Err(e): handle_client's Err arm is next
AuthErr(h, e) ==
    /\ Goto(h, "auth_failed")
    /\ reply' = [reply EXCEPT ![h] = Reply("Authentication failed", e, <<>>)]
    /\ UNCHANGED <<user, cid, loc>>

\* authenticate_client: a prompt write or a read_line fails
AuthReadFail(h) ==
    /\ pc[h] = "start"
    /\ \E e \in {"write failed", "Connection closed"} : AuthErr(h, e)
    /\ UNCHANGED <<connection_count, clients, channels, config_file, sessions,
                   database, chanLock, voiceLock, bc, nextId, accepts, reads>>

\* authenticate_client: the choice is neither "1" nor "2"
AuthInvalidChoice(h) ==
    /\ pc[h] = "start"
    /\ AuthErr(h, "Invalid authentication choice")
    /\ UNCHANGED <<connection_count, clients, channels, config_file, sessions,
                   database, chanLock, voiceLock, bc, nextId, accepts, reads>>

\* what handle_client does with authenticate_client's result; `wrote` is
\* whether the write of the outcome to the stream succeeded
AfterAuth(h, res, wrote) ==
    IF res.ok /\ wrote
    THEN /\ Goto(h, "client_new")
         /\ user' = [user EXCEPT ![h] = res.val]
         /\ UNCHANGED <<cid, loc, reply>>
    ELSE AuthErr(h, IF wrote THEN res.err ELSE "write failed")

\* a handler that prompts again after a failed authentication
AuthFailed_retry(h) ==
    /\ pc[h] = "auth_failed"
    /\ Goto(h, "start")
    /\ UNCHANGED <<user, cid, loc, reply>>
    /\ UNCHANGED <<connection_count, clients, channels, config_file, sessions,
                   database, chanLock, voiceLock, bc, nextId, accepts, reads>>

\* Err(e) => write "Authentication failed: e" and return Ok(()): the handler
\* ends, the connection is dropped
AuthFailed(h) ==
    /\ pc[h] = "auth_failed"
    /\ ThreadEnd(h)
    /\ UNCHANGED <<connection_count, clients, channels, config_file, sessions,
                   database, chanLock, voiceLock, bc, nextId, accepts, reads>>

\* login_user
AuthLogin(h) ==
    /\ pc[h] = "start"
    /\ \E cred \in Credentials, wrote \in BOOLEAN :
        AfterAuth(h, login(database, cred[1], cred[2]), wrote)
    /\ UNCHANGED <<connection_count, clients, channels, config_file, sessions,
                   database, chanLock, voiceLock, bc, nextId, accepts, reads>>

\* register_user
AuthRegister(h) ==
    /\ pc[h] = "start"
    /\ \E cred \in Credentials, salt \in Salts, saved \in BOOLEAN, wrote \in BOOLEAN :
        LET r == register(database, cred[1], cred[2], salt, saved)
        IN  /\ database' = r.db
            /\ AfterAuth(h, r.res, wrote)
    /\ UNCHANGED <<connection_count, clients, channels, config_file, sessions,
                   chanLock, voiceLock, bc, nextId, accepts, reads>>

\* Client::new(stream.try_clone()?, authenticated_user)
ClientNew(h) ==
    /\ pc[h] = "client_new"
    /\ \/ /\ Goto(h, "show_channels")
          /\ cid' = [cid EXCEPT ![h] = nextId + 1]
          /\ nextId' = nextId + 1
          /\ loc' = [loc EXCEPT ![h] = [cmd |-> "setup"]]
          /\ UNCHANGED <<user, reply>>
       \/ /\ ThreadEnd(h)
          /\ UNCHANGED nextId
    /\ UNCHANGED <<connection_count, clients, channels, config_file, sessions,
                   database, chanLock, voiceLock, bc, accepts, reads>>

\* show_channels: channel_manager.lock() and list_channels
ShowLock(h) ==
    /\ pc[h] = "show_channels"
    /\ chanLock = 0
    /\ chanLock' = h
    /\ Goto(h, "show_write")
    /\ UNCHANGED <<connection_count, clients, channels, config_file, sessions,
                   database, voiceLock, user, cid, loc, bc, reply, nextId, accepts, reads>>

\* show_channels: write the listing, return (the guard is dropped)
ShowWrite(h) ==
    /\ pc[h] = "show_write"
    /\ chanLock' = 0
    /\ IF loc[h].cmd = "setup"
       THEN Goto(h, "join_general") /\ UNCHANGED reply
       ELSE /\ Goto(h, "replied")
            /\ \E w \in Written(Reply("Available Channels", None, <<>>)) :
                  reply' = [reply EXCEPT ![h] = w]
    /\ UNCHANGED <<connection_count, clients, channels, config_file, sessions,
                   database, voiceLock, user, cid, loc, bc, nextId, accepts, reads>>

\* channel_manager.join_channel("general", ..) in its own block
JoinGeneral(h) ==
    /\ pc[h] = "join_general"
    /\ chanLock = 0
    /\ channels' = join_channel(channels, "general", user[h])
    /\ Goto(h, "insert")
    /\ UNCHANGED <<connection_count, clients, config_file, sessions, database,
                   chanLock, voiceLock, user, cid, loc, bc, reply, nextId, accepts, reads>>

\* clients_guard.insert(client_id, client.try_clone()?), then the join broadcast
Insert(h) ==
    /\ pc[h] = "insert"
    /\ \/ /\ clients' = insert_client(clients, cid[h], user[h])
          /\ CallBroadcast(h, "general", Msg("joined", user[h], <<>>), cid[h], "help")
          /\ UNCHANGED <<user, cid, loc, reply>>
       \/ /\ ThreadEnd(h)
          /\ UNCHANGED <<clients, bc>>
    /\ UNCHANGED <<connection_count, channels, config_file, sessions, database,
                   chanLock, voiceLock, nextId, accepts, reads>>

----------------------------------------------------------------------------
(* broadcast_to_channel *)

\* channel_manager.lock(): the member list of the channel, or the default
BcUsers(h) ==
    /\ pc[h] = "bc_users"
    /\ chanLock = 0
    /\ bc' = [bc EXCEPT ![h].users =
                IF bc[h].chan \in DOMAIN channels THEN channels[bc[h].chan].users
                ELSE <<>>]
    /\ Goto(h, "bc_snapshot")
    /\ UNCHANGED <<connection_count, clients, channels, config_file, sessions,
                   database, chanLock, voiceLock, user, cid, loc, reply, nextId,
                   accepts, reads>>

\* clients.lock(): filter, and filter_map(try_clone().ok()) keeps the clients
\* whose stream could be duplicated
BcSnapshot(h) ==
    /\ pc[h] = "bc_snapshot"
    /\ \E cloned \in SUBSET clients_to_notify(clients, bc[h].users, bc[h].excl) :
        bc' = [bc EXCEPT ![h].targets = cloned, ![h].users = <<>>]
    /\ Goto(h, "bc_send")
    /\ UNCHANGED <<connection_count, clients, channels, config_file, sessions,
                   database, chanLock, voiceLock, user, cid, loc, reply, nextId,
                   accepts, reads>>

\* client.stream.write_all(..) succeeds
BcWriteOk(h) ==
    /\ pc[h] = "bc_send"
    /\ \E t \in bc[h].targets :
        bc' = [bc EXCEPT ![h].targets = @ \ {t}, ![h].written = @ \cup {t}]
    /\ UNCHANGED <<connection_count, clients, channels, config_file, sessions,
                   database, chanLock, voiceLock, pc, user, cid, loc, reply,
                   nextId, accepts, reads>>

\* a failed write that ends the loop: the remaining recipients are dropped
BcWriteFail_abort(h) ==
    /\ pc[h] = "bc_send"
    /\ \E t \in bc[h].targets :
        /\ bc' = [bc EXCEPT ![h].targets = {}, ![h].written = @ \cup {t},
                            ![h].failed = @ \cup {t}]
        /\ clients' = remove_client(clients, t)
    /\ UNCHANGED <<connection_count, channels, config_file, sessions, database,
                   chanLock, voiceLock, pc, user, cid, loc, reply, nextId,
                   accepts, reads>>

\* client.stream.write_all(..) fails: clients.lock() and remove(&client.id)
BcWriteFail(h) ==
    /\ pc[h] = "bc_send"
    /\ \E t \in bc[h].targets :
        /\ bc' = [bc EXCEPT ![h].targets = @ \ {t}, ![h].written = @ \cup {t},
                            ![h].failed = @ \cup {t}]
        /\ clients' = remove_client(clients, t)
    /\ UNCHANGED <<connection_count, channels, config_file, sessions, database,
                   chanLock, voiceLock, pc, user, cid, loc, reply, nextId,
                   accepts, reads>>

\* the loop is over: return to the caller.  After "help" handle_client writes
\* the help banner and blocks in read; after "join_done" handle_join_command
\* returns and drops its channel_manager guard.
BcReturn(h) ==
    /\ pc[h] = "bc_send"
    /\ bc[h].targets = {}
    /\ bc' = [bc EXCEPT ![h] = NoBc]
    /\ Goto(h, CASE bc[h].ret = "help" -> "loop"
                 [] bc[h].ret = "join_done" -> "replied"
                 [] OTHER -> bc[h].ret)
    /\ chanLock' = IF bc[h].ret = "join_done" THEN 0 ELSE chanLock
    /\ loc' = IF bc[h].ret = "help" THEN [loc EXCEPT ![h] = NoLoc] ELSE loc
    /\ UNCHANGED <<connection_count, clients, channels, config_file, sessions,
                   database, voiceLock, user, cid, reply, nextId, accepts, reads>>

----------------------------------------------------------------------------
(* handle_client: the read loop *)

ToCleanup(h) ==
    /\ pc[h] = "loop"
    /\ Goto(h, "cleanup")
    /\ UNCHANGED <<connection_count, clients, channels, config_file, sessions,
                   database, chanLock, voiceLock, user, cid, loc, bc, reply,
                   nextId, accepts, reads>>

\* Ok(0)
ReadEof(h) == ToCleanup(h)

\* Err(TimedOut): the notice is written
ReadTimeout(h) == ToCleanup(h)

\* any other Err
ReadError(h) == ToCleanup(h)

\* message == "/quit": "Goodbye!" is written
ReadQuit(h) ==
    /\ \E line \in Lines : line = <<"/quit">>
    /\ ToCleanup(h)

\* a reply that needs no lock
ReplyNow(h, line, text) ==
    /\ pc[h] = "loop"
    /\ reads > 0
    /\ reads' = reads - 1
    /\ Goto(h, "replied")
    /\ loc' = [loc EXCEPT ![h] = [cmd |-> "reply", line |-> line]]
    /\ \E w \in Written(text) : reply' = [reply EXCEPT ![h] = w]
    /\ UNCHANGED <<connection_count, clients, channels, config_file, sessions,
                   database, chanLock, voiceLock, user, cid, bc, nextId,
                   accepts>>

\* a command that goes on to request a lock
Request(h, p, locals) ==
    /\ pc[h] = "loop"
    /\ reads > 0
    /\ reads' = reads - 1
    /\ Goto(h, p)
    /\ loc' = [loc EXCEPT ![h] = locals]
    /\ UNCHANGED <<connection_count, clients, channels, config_file, sessions,
                   database, chanLock, voiceLock, user, cid, bc, reply, nextId,
                   accepts>>

\* a line that does not start with '/': it is broadcast to the sender's
\* channel; without a channel nothing is done and the loop reads again
ReadChat(h) ==
    /\ pc[h] = "loop"
    /\ reads > 0
    /\ reads' = reads - 1
    /\ \E line \in Lines :
        /\ ~starts_with_slash(line)
        /\ LET channel == get_client_current_channel(clients, cid[h])
           IN  IF channel # None
               THEN /\ CallBroadcast(h, channel, Msg("chat", user[h], line), cid[h], "loop")
                    /\ UNCHANGED loc
               ELSE /\ Goto(h, "replied")
                    /\ loc' = [loc EXCEPT ![h] = [cmd |-> "chat", line |-> line]]
                    /\ UNCHANGED bc
    /\ UNCHANGED <<connection_count, clients, channels, config_file, sessions,
                   database, chanLock, voiceLock, user, cid, reply, nextId,
                   accepts>>

CmdHelp(h) ==
    \E line \in Lines : line[1] = "/help" /\ ReplyNow(h, line, Reply("Commands", None, <<>>))

CmdUnknown(h) ==
    \E line \in Lines :
        /\ starts_with_slash(line) /\ line # <<"/quit">>
        /\ line[1] \notin KnownCommands
        /\ ReplyNow(h, line, Reply("Unknown command", None, <<>>))

CmdChannels(h) ==
    \E line \in Lines :
        line[1] = "/channels" /\ Request(h, "show_channels", [cmd |-> "channels", line |-> line])

\* the command's last write (locals `res`, None when nothing is written), then
\* the return: every guard the function holds is dropped
CmdReply(h) ==
    /\ pc[h] = "cmd_reply"
    /\ \E w \in Written(loc[h].res) : reply' = [reply EXCEPT ![h] = w]
    /\ chanLock' = IF chanLock = h THEN 0 ELSE chanLock
    /\ voiceLock' = IF voiceLock = h THEN 0 ELSE voiceLock
    /\ Goto(h, "replied")
    /\ UNCHANGED <<connection_count, clients, channels, config_file, sessions,
                   database, user, cid, loc, bc, nextId, accepts, reads>>

\* back at stream.read
Replied(h) ==
    /\ pc[h] = "replied"
    /\ Goto(h, "loop")
    /\ reply' = [reply EXCEPT ![h] = NoReply]
    /\ loc' = [loc EXCEPT ![h] = NoLoc]
    /\ UNCHANGED <<connection_count, clients, channels, config_file, sessions,
                   database, chanLock, voiceLock, user, cid, bc, nextId, accepts, reads>>

----------------------------------------------------------------------------
(* handle_join_command *)

\* a /join that answers with its usage for any argument count but one
CmdJoinUsage_exact(h) ==
    \E line \in Lines :
        line[1] = "/join" /\ Len(line) # 2 /\ ReplyNow(h, line, Reply("Usage: /join <channel_name>", None, <<>>))

CmdJoinUsage(h) ==
    \E line \in Lines :
        line[1] = "/join" /\ Len(line) < 2 /\ ReplyNow(h, line, Reply("Usage: /join <channel_name>", None, <<>>))

CmdJoin(h) ==
    \E line \in Lines :
        /\ line[1] = "/join" /\ Len(line) >= 2
        /\ Request(h, "join_lock", [cmd |-> "join", line |-> line, channel_name |-> line[2], res |-> NoReply])

\* channel_manager.lock() (held until the function returns), channel_exists
JoinLock(h) ==
    /\ pc[h] = "join_lock"
    /\ chanLock = 0
    /\ chanLock' = h
    /\ IF channel_exists(channels, loc[h].channel_name)
       THEN Goto(h, "join_old") /\ UNCHANGED loc
       ELSE /\ Goto(h, "cmd_reply")
            /\ loc' = [loc EXCEPT ![h].res = Reply("Channel does not exist", None, <<>>)]
    /\ UNCHANGED <<connection_count, clients, channels, config_file, sessions,
                   database, voiceLock, user, cid, bc, reply, nextId, accepts, reads>>

\* get_client_current_channel; leave_channel(old) and the departure broadcast
JoinOld(h) ==
    /\ pc[h] = "join_old"
    /\ LET old_channel == get_client_current_channel(clients, cid[h])
       IN  IF old_channel # None
           THEN /\ channels' = leave_channel(channels, old_channel, user[h])
                /\ CallBroadcast(h, old_channel, Msg("left", user[h], <<>>), NoId,
                                 "join_new")
           ELSE /\ Goto(h, "join_new")
                /\ UNCHANGED <<channels, bc>>
    /\ UNCHANGED <<connection_count, clients, config_file, sessions, database,
                   chanLock, voiceLock, user, cid, loc, reply, nextId, accepts, reads>>

\* join_channel(channel_name), clients.lock() and the update of current_channel
JoinNew(h) ==
    /\ pc[h] = "join_new"
    /\ channels' = join_channel(channels, loc[h].channel_name, user[h])
    /\ clients' = set_current_channel(clients, cid[h], loc[h].channel_name)
    /\ Goto(h, "join_reply")
    /\ UNCHANGED <<connection_count, config_file, sessions, database, chanLock,
                   voiceLock, user, cid, loc, bc, reply, nextId, accepts, reads>>

\* write_all("Joined channel: ..")?; the arrival broadcast
JoinReply(h) ==
    /\ pc[h] = "join_reply"
    /\ \/ /\ reply' = [reply EXCEPT ![h] = Reply("Joined channel", loc[h].channel_name, <<>>)]
          /\ CallBroadcast(h, loc[h].channel_name, Msg("joined", user[h], <<>>),
                           cid[h], "join_done")
          /\ UNCHANGED chanLock
       \/ /\ reply' = [reply EXCEPT ![h] = CommandFailed]
          /\ Goto(h, "replied")
          /\ chanLock' = 0
          /\ UNCHANGED bc
    /\ UNCHANGED <<connection_count, clients, channels, config_file, sessions,
                   database, voiceLock, user, cid, loc, nextId, accepts, reads>>

----------------------------------------------------------------------------
(* handle_voice_command, handle_leave_command *)

CmdVoiceUsage(h) ==
    \E line \in Lines :
        line[1] = "/voice" /\ Len(line) < 2 /\ ReplyNow(h, line, Reply("Usage: /voice <channel_name>", None, <<>>))

CmdVoice(h) ==
    \E line \in Lines :
        /\ line[1] = "/voice" /\ Len(line) >= 2
        /\ Request(h, "voice_lock", [cmd |-> "voice", line |-> line, channel_name |-> line[2], res |-> NoReply])

\* a /voice that takes a channel of any kind
VoiceLock_anykind(h) ==
    /\ pc[h] = "voice_lock"
    /\ chanLock = 0
    /\ chanLock' = h
    /\ IF loc[h].channel_name \notin DOMAIN channels
       THEN /\ Goto(h, "cmd_reply")
            /\ loc' = [loc EXCEPT ![h].res = Reply("Voice channel does not exist", None, <<>>)]
       ELSE Goto(h, "voice_join") /\ UNCHANGED loc
    /\ UNCHANGED <<connection_count, clients, channels, config_file, sessions,
                   database, voiceLock, user, cid, bc, reply, nextId, accepts, reads>>

\* channel_manager.lock() (held until the function returns), get_channel
VoiceLock(h) ==
    /\ pc[h] = "voice_lock"
    /\ chanLock = 0
    /\ chanLock' = h
    /\ IF loc[h].channel_name \notin DOMAIN channels
       THEN /\ Goto(h, "cmd_reply")
            /\ loc' = [loc EXCEPT ![h].res = Reply("Voice channel does not exist", None, <<>>)]
       ELSE IF channels[loc[h].channel_name].channel_type # Voice
       THEN /\ Goto(h, "cmd_reply")
            /\ loc' = [loc EXCEPT ![h].res = Reply("That's not a voice channel", None, <<>>)]
       ELSE Goto(h, "voice_join") /\ UNCHANGED loc
    /\ UNCHANGED <<connection_count, clients, channels, config_file, sessions,
                   database, voiceLock, user, cid, bc, reply, nextId, accepts, reads>>

\* voice_manager.lock() while channel_manager is held, join_voice_channel
VoiceJoin(h) ==
    /\ pc[h] = "voice_join"
    /\ voiceLock = 0
    /\ voiceLock' = h
    /\ sessions' = join_voice_channel(sessions, user[h], loc[h].channel_name)
    /\ loc' = [loc EXCEPT ![h].res = Reply("Joined voice channel", loc[h].channel_name, <<>>)]
    /\ Goto(h, "cmd_reply")
    /\ UNCHANGED <<connection_count, clients, channels, config_file, database,
                   chanLock, user, cid, bc, reply, nextId, accepts, reads>>

CmdLeave(h) ==
    \E line \in Lines :
        line[1] = "/leave" /\ Request(h, "leave_lock", [cmd |-> "leave", line |-> line, res |-> NoReply])

\* a /leave that goes on to list the channels with its guard still alive
LeaveLock_listing(h) ==
    /\ pc[h] = "leave_lock"
    /\ voiceLock = 0
    /\ voiceLock' = h
    /\ sessions' = leave_voice_channel(sessions, user[h])
    /\ Goto(h, "show_channels")
    /\ UNCHANGED <<connection_count, clients, channels, config_file, database,
                   chanLock, user, cid, loc, bc, reply, nextId, accepts, reads>>

\* voice_manager.lock() (held until the function returns), leave_voice_channel
LeaveLock(h) ==
    /\ pc[h] = "leave_lock"
    /\ voiceLock = 0
    /\ voiceLock' = h
    /\ sessions' = leave_voice_channel(sessions, user[h])
    /\ loc' = [loc EXCEPT ![h].res = IF user[h] \in DOMAIN sessions
                                     THEN Reply("Left voice channel", None, <<>>)
                                     ELSE Reply("You're not in a voice channel", None, <<>>)]
    /\ Goto(h, "cmd_reply")
    /\ UNCHANGED <<connection_count, clients, channels, config_file, database,
                   chanLock, user, cid, bc, reply, nextId, accepts, reads>>

----------------------------------------------------------------------------
(* handle_create_command, handle_users_command *)

CmdCreateUsage(h) ==
    \E line \in Lines :
        /\ line[1] = "/create" /\ Len(line) < 3
        /\ ReplyNow(h, line, Reply("Usage: /create <name> text|voice", None, <<>>))

CmdCreateBadType(h) ==
    \E line \in Lines :
        /\ line[1] = "/create" /\ Len(line) >= 3
        /\ line[3] \notin {"text", "voice"}
        /\ ReplyNow(h, line, Reply("Channel type must be 'text' or 'voice'", None, <<>>))

CmdCreate(h) ==
    \E line \in Lines :
        /\ line[1] = "/create" /\ Len(line) >= 3
        /\ line[3] \in {"text", "voice"}
        /\ Request(h, "create_lock",
                   [cmd |-> "create", line |-> line, channel_name |-> line[2],
                    channel_type |-> IF line[3] = "text" THEN Text ELSE Voice,
                    res |-> NoReply])

\* a /create that also clears the creator's voice session before it returns
CreateLock_unvoice(h) ==
    /\ pc[h] = "create_lock"
    /\ chanLock = 0
    /\ chanLock' = h
    /\ channels' = create_channel(channels, loc[h].channel_name, loc[h].channel_type)
    /\ UNCHANGED <<config_file, loc>>
    /\ Goto(h, "leave_lock")
    /\ UNCHANGED <<connection_count, clients, sessions, database, voiceLock,
                   user, cid, bc, reply, nextId, accepts, reads>>

\* channel_manager.lock() (held until the function returns), create_channel
\* with its save_channels, which may fail
CreateLock(h) ==
    /\ pc[h] = "create_lock"
    /\ chanLock = 0
    /\ chanLock' = h
    /\ channels' = create_channel(channels, loc[h].channel_name, loc[h].channel_type)
    /\ IF loc[h].channel_name \in DOMAIN channels
       THEN /\ loc' = [loc EXCEPT ![h].res = Reply("Channel already exists", None, <<>>)]
            /\ UNCHANGED config_file
       ELSE /\ loc' = [loc EXCEPT ![h].res = Reply("Created channel", loc[h].channel_name, <<>>)]
            /\ \E saved \in BOOLEAN :
                config_file' = IF saved THEN channels' ELSE config_file
    /\ Goto(h, "cmd_reply")
    /\ UNCHANGED <<connection_count, clients, sessions, database, voiceLock,
                   user, cid, bc, reply, nextId, accepts, reads>>

\* get_client_current_channel
CmdUsers(h) ==
    \E line \in Lines :
        /\ line[1] = "/users"
        /\ LET channel == get_client_current_channel(clients, cid[h])
           IN  IF channel # None
               THEN Request(h, "users_lock", [cmd |-> "users", line |-> line, channel |-> channel, res |-> NoReply])
               ELSE ReplyNow(h, line, Reply("You're not in any channel", None, <<>>))

\* channel_manager.lock() (held until the function returns), get_channel
UsersLock(h) ==
    /\ pc[h] = "users_lock"
    /\ chanLock = 0
    /\ chanLock' = h
    /\ loc' = [loc EXCEPT ![h].res =
                IF loc[h].channel \in DOMAIN channels
                THEN Reply("Users in", loc[h].channel, channels[loc[h].channel].users)
                ELSE NoReply]
    /\ Goto(h, "cmd_reply")
    /\ UNCHANGED <<connection_count, clients, channels, config_file, sessions,
                   database, voiceLock, user, cid, bc, reply, nextId, accepts, reads>>

----------------------------------------------------------------------------
(* cleanup_client and the end of handle_client *)

\* get_client_current_channel
CleanupGet(h) ==
    /\ pc[h] = "cleanup"
    /\ loc' = [loc EXCEPT ![h] = [cmd |-> "cleanup",
                 current_channel |-> get_client_current_channel(clients, cid[h])]]
    /\ Goto(h, "cleanup_remove")
    /\ UNCHANGED <<connection_count, clients, channels, config_file, sessions,
                   database, chanLock, voiceLock, user, cid, bc, reply, nextId,
                   accepts, reads>>

\* clients_guard.remove(&client_id)
CleanupRemove(h) ==
    /\ pc[h] = "cleanup_remove"
    /\ clients' = remove_client(clients, cid[h])
    /\ Goto(h, "cleanup_leave_all")
    /\ UNCHANGED <<connection_count, channels, config_file, sessions, database,
                   chanLock, voiceLock, user, cid, loc, bc, reply, nextId, accepts, reads>>

\* channel_manager.leave_all_channels(username)
CleanupLeaveAll(h) ==
    /\ pc[h] = "cleanup_leave_all"
    /\ chanLock = 0
    /\ channels' = leave_all_channels(channels, user[h])
    /\ Goto(h, "cleanup_voice")
    /\ UNCHANGED <<connection_count, clients, config_file, sessions, database,
                   chanLock, voiceLock, user, cid, loc, bc, reply, nextId, accepts, reads>>

\* voice_manager.leave_voice_channel(username), then the departure broadcast
CleanupVoice(h) ==
    /\ pc[h] = "cleanup_voice"
    /\ voiceLock = 0
    /\ sessions' = leave_voice_channel(sessions, user[h])
    /\ IF loc[h].current_channel # None
       THEN CallBroadcast(h, loc[h].current_channel, Msg("left", user[h], <<>>),
                          NoId, "decrement")
       ELSE Goto(h, "decrement") /\ UNCHANGED bc
    /\ UNCHANGED <<connection_count, clients, channels, config_file, database,
                   chanLock, voiceLock, user, cid, loc, reply, nextId, accepts, reads>>

\* server.decrement_connection_count(), return Ok(())
Decrement(h) ==
    /\ pc[h] = "decrement"
    /\ connection_count' = decrement_connection_count(connection_count)
    /\ ThreadEnd(h)
    /\ UNCHANGED <<clients, channels, config_file, sessions, database, chanLock,
                   voiceLock, bc, nextId, accepts, reads>>

----------------------------------------------------------------------------

\* handle_client up to the read loop
Setup(h) ==
    \/ SetTimeoutFail(h) \/ AuthReadFail(h) \/ AuthInvalidChoice(h)
    \/ AuthLogin(h) \/ AuthRegister(h) \/ AuthFailed(h) \/ ClientNew(h)
    \/ ShowLock(h) \/ ShowWrite(h) \/ JoinGeneral(h) \/ Insert(h)

Broadcast(h) ==
    BcUsers(h) \/ BcSnapshot(h) \/ BcWriteOk(h) \/ BcWriteFail(h) \/ BcReturn(h)

\* the ways out of the read loop, cleanup_client and the return
Exit(h) ==
    \/ ReadEof(h) \/ ReadTimeout(h) \/ ReadError(h) \/ ReadQuit(h)
    \/ CleanupGet(h) \/ CleanupRemove(h) \/ CleanupLeaveAll(h) \/ CleanupVoice(h)
    \/ Decrement(h)

Join(h) ==
    \/ CmdJoinUsage(h) \/ CmdJoin(h) \/ JoinLock(h) \/ JoinOld(h) \/ JoinNew(h)
    \/ JoinReply(h) \/ CmdReply(h) \/ Replied(h)

VoiceCmds(h) ==
    \/ CmdVoiceUsage(h) \/ CmdVoice(h) \/ VoiceLock(h) \/ VoiceJoin(h)
    \/ CmdLeave(h) \/ LeaveLock(h)

OtherCmds(h) ==
    \/ CmdHelp(h) \/ CmdUnknown(h) \/ CmdChannels(h)
    \/ CmdCreateUsage(h) \/ CmdCreateBadType(h) \/ CmdCreate(h) \/ CreateLock(h)
    \/ CmdUsers(h) \/ UsersLock(h)

\* The server from start-up, its clients chatting, switching channels and leaving
Next ==
    \/ Admit
    \/ \E h \in Handlers : Setup(h) \/ Broadcast(h) \/ Exit(h) \/ ReadChat(h) \/ Join(h)

Spec == Init /\ [][Next]_vars

----------------------------------------------------------------------------
(* The server at capacity: alice registered and logged in once, bob twice,   *)
(* all three in "general" and waiting for input.                            *)

FullNames == <<alice, bob, bob>>

InitFull(a, r) ==
    /\ connection_count = MAX_CONNECTIONS
    /\ clients = [c \in Handlers |-> [name |-> FullNames[c], current_channel |-> "general"]]
    /\ channels = [DefaultChannels EXCEPT !["general"].users = <<alice, bob>>]
    /\ config_file = DefaultChannels
    /\ sessions = <<>>
    /\ database = [u \in {alice, bob} |-> hash(password1, 1)]
    /\ chanLock = 0
    /\ voiceLock = 0
    /\ pc = [h \in Handlers |-> "loop"]
    /\ user = [h \in Handlers |-> FullNames[h]]
    /\ cid = [h \in Handlers |-> h]
    /\ loc = [h \in Handlers |-> NoLoc]
    /\ bc = [h \in Handlers |-> NoBc]
    /\ reply = [h \in Handlers |-> NoReply]
    /\ nextId = MAX_CONNECTIONS
    /\ accepts = a
    /\ reads = r

\* the three clients chat, issue commands and leave; the listener turns
\* further connections away
NextFull ==
    \/ Refuse
    \/ \E h \in Handlers :
          \/ Broadcast(h) \/ Exit(h) \/ ReadChat(h)
          \/ Join(h) \/ VoiceCmds(h) \/ OtherCmds(h)

SpecFull == InitFull(0, MaxFullReads) /\ [][NextFull]_vars

\* a step of handler h's thread once it has its input: everything except the
\* reads, which wait for the client
Running(h) ==
    \/ Broadcast(h)
    \/ CleanupGet(h) \/ CleanupRemove(h) \/ CleanupLeaveAll(h) \/ CleanupVoice(h)
    \/ Decrement(h)
    \/ JoinLock(h) \/ JoinOld(h) \/ JoinNew(h) \/ JoinReply(h)
    \/ CmdReply(h) \/ Replied(h)
    \/ VoiceLock(h) \/ VoiceJoin(h) \/ LeaveLock(h)
    \/ ShowLock(h) \/ ShowWrite(h) \/ CreateLock(h) \/ UsersLock(h)

\* every thread that can run is scheduled again and again
Fairness == \A h \in Handlers : WF_vars(Running(h))

FairSpecFull == SpecFull /\ Fairness

\* clients leave and further connections arrive
NextAdmission ==
    \/ Admit \/ Refuse
    \/ \E h \in Handlers : Setup(h) \/ Broadcast(h) \/ Exit(h)

SpecAdmission == InitFull(MaxFullAccepts, 0) /\ [][NextAdmission]_vars

----------------------------------------------------------------------------
(* The managers on their own: a thread that owns a manager calls its methods *)
(* in any order.  The call and what it returned are kept in loc[1].         *)

\* the server's state outside the managers, at rest
Quiet ==
    /\ connection_count = 0
    /\ clients = <<>>
    /\ chanLock = 0
    /\ voiceLock = 0
    /\ pc = [h \in Handlers |-> "idle"]
    /\ user = [h \in Handlers |-> NoUser]
    /\ cid = [h \in Handlers |-> 0]
    /\ bc = [h \in Handlers |-> NoBc]
    /\ reply = [h \in Handlers |-> NoReply]
    /\ nextId = 0
    /\ accepts = 0
    /\ reads = 0

Call(record) == loc' = [loc EXCEPT ![1] = record]

\* the names and identities the calls are made with
DirNames == {"general", "voice-lobby", "lobby", "nochan"}
DirUsers == {alice, bob}

InitDirectory ==
    /\ Quiet
    /\ channels = DefaultChannels
    /\ config_file = DefaultChannels
    /\ sessions = <<>>
    /\ database = <<>>
    /\ loc = [h \in Handlers |-> NoLoc]

\* create_channel(name, channel_type); `saved` is whether save_channels
\* succeeded
DirCreate ==
    \E name \in DirNames \ {"nochan"}, channel_type \in {Text, Voice}, saved \in BOOLEAN :
        /\ channels' = create_channel(channels, name, channel_type)
        /\ config_file' = IF name \notin DOMAIN channels /\ saved
                           THEN channels' ELSE config_file
        /\ Call([cmd |-> "create_channel", name |-> name,
                  channel_type |-> channel_type, saved |-> saved,
                  ret |-> name \notin DOMAIN channels])
        /\ UNCHANGED <<connection_count, clients, sessions, database, chanLock,
                       voiceLock, pc, user, cid, bc, reply, nextId, accepts, reads>>

DirJoin ==
    \E name \in DirNames, username \in DirUsers :
        /\ channels' = join_channel(channels, name, username)
        /\ Call([cmd |-> "join_channel", name |-> name, username |-> username])
        /\ UNCHANGED <<connection_count, clients, config_file, sessions, database,
                       chanLock, voiceLock, pc, user, cid, bc, reply, nextId,
                       accepts, reads>>

DirLeave ==
    \E name \in DirNames, username \in DirUsers :
        /\ channels' = leave_channel(channels, name, username)
        /\ Call([cmd |-> "leave_channel", name |-> name, username |-> username])
        /\ UNCHANGED <<connection_count, clients, config_file, sessions, database,
                       chanLock, voiceLock, pc, user, cid, bc, reply, nextId,
                       accepts, reads>>

DirLeaveAll ==
    \E username \in DirUsers :
        /\ channels' = leave_all_channels(channels, username)
        /\ Call([cmd |-> "leave_all_channels", username |-> username])
        /\ UNCHANGED <<connection_count, clients, config_file, sessions, database,
                       chanLock, voiceLock, pc, user, cid, bc, reply, nextId,
                       accepts, reads>>

DirList ==
    /\ Call([cmd |-> "list_channels", ret |-> list_channels(channels)])
    /\ UNCHANGED <<connection_count, clients, channels, config_file, sessions,
                   database, chanLock, voiceLock, pc, user, cid, bc, reply,
                   nextId, accepts, reads>>

NextDirectory == DirCreate \/ DirJoin \/ DirLeave \/ DirLeaveAll \/ DirList

SpecDirectory == InitDirectory /\ [][NextDirectory]_vars

\* VoiceChannelManager on its own
VoiceNames == {"voice-lobby", "gaming"}

InitVoice ==
    /\ Quiet
    /\ channels = DefaultChannels
    /\ config_file = DefaultChannels
    /\ sessions = <<>>
    /\ database = <<>>
    /\ loc = [h \in Handlers |-> NoLoc]

VmJoin ==
    \E username \in DirUsers, channel \in VoiceNames :
        /\ sessions' = join_voice_channel(sessions, username, channel)
        /\ Call([cmd |-> "join_voice_channel", username |-> username,
                  ret |-> Ok(TRUE)])
        /\ UNCHANGED <<connection_count, clients, channels, config_file, database,
                       chanLock, voiceLock, pc, user, cid, bc, reply, nextId,
                       accepts, reads>>

VmLeave ==
    \E username \in DirUsers :
        /\ sessions' = leave_voice_channel(sessions, username)
        /\ Call([cmd |-> "leave_voice_channel", username |-> username,
                  ret |-> Ok(username \in DOMAIN sessions)])
        /\ UNCHANGED <<connection_count, clients, channels, config_file, database,
                       chanLock, voiceLock, pc, user, cid, bc, reply, nextId,
                       accepts, reads>>

VmToggleMute ==
    \E username \in DirUsers :
        /\ sessions' = toggle_mute(sessions, username).vs
        /\ Call([cmd |-> "toggle_mute", username |-> username,
                  ret |-> toggle_mute(sessions, username).ret])
        /\ UNCHANGED <<connection_count, clients, channels, config_file, database,
                       chanLock, voiceLock, pc, user, cid, bc, reply, nextId,
                       accepts, reads>>

VmToggleDeafen ==
    \E username \in DirUsers :
        /\ sessions' = toggle_deafen(sessions, username).vs
        /\ Call([cmd |-> "toggle_deafen", username |-> username,
                  ret |-> toggle_deafen(sessions, username).ret])
        /\ UNCHANGED <<connection_count, clients, channels, config_file, database,
                       chanLock, voiceLock, pc, user, cid, bc, reply, nextId,
                       accepts, reads>>

NextVoice == VmJoin \/ VmLeave \/ VmToggleMute \/ VmToggleDeafen

SpecVoice == InitVoice /\ [][NextVoice]_vars

\* AuthManager on its own; `saved` is whether save_database succeeded
InitAuth ==
    /\ Quiet
    /\ channels = DefaultChannels
    /\ config_file = DefaultChannels
    /\ sessions = <<>>
    /\ database = <<>>
    /\ loc = [h \in Handlers |-> NoLoc]

AmRegister ==
    \E username \in Usernames, password \in Passwords, salt \in Salts,
       saved \in BOOLEAN :
        LET r == register(database, username, password, salt, saved) IN
        /\ database' = r.db
        /\ Call([cmd |-> "register", username |-> username,
                  password |-> password, saved |-> saved, ret |-> r.res])
        /\ UNCHANGED <<connection_count, clients, channels, config_file, sessions,
                       chanLock, voiceLock, pc, user, cid, bc, reply, nextId,
                       accepts, reads>>

AmLogin ==
    \E username \in Usernames, password \in Passwords :
        /\ Call([cmd |-> "login", username |-> username,
                  password |-> password, saved |-> TRUE,
                  ret |-> login(database, username, password)])
        /\ UNCHANGED <<connection_count, clients, channels, config_file, sessions,
                       database, chanLock, voiceLock, pc, user, cid, bc, reply,
                       nextId, accepts, reads>>

NextAuth == AmRegister \/ AmLogin

SpecAuth == InitAuth /\ [][NextAuth]_vars

----------------------------------------------------------------------------
(* Properties *)

\* the sessions a broadcast is meant for, from the member list M it read
\* (bc[h].users) and the registry: identity in M, and not the excluded session
Recipients(h) ==
    {c \in DOMAIN clients :
        /\ \E i \in 1..Len(bc[h].users) : bc[h].users[i] = clients[c].name
        /\ c # bc[h].excl}

\* the write loop of a broadcast: each step attempts one recipient of the
\* snapshot that was not attempted before, and the call returns only when
\* none is left
WriteLoop(h) ==
    /\ pc[h] = "bc_send" /\ pc'[h] = "bc_send" /\ bc'[h] # bc[h]
        => \E t \in bc[h].targets :
              /\ t \notin bc[h].written
              /\ bc'[h].targets = bc[h].targets \ {t}
              /\ bc'[h].written = bc[h].written \cup {t}
    /\ pc[h] = "bc_send" /\ pc'[h] # "bc_send" => bc[h].targets = {}

\* C1 (as stated): broadcast(c, m, exclude=s) writes m to exactly the
\* registered sessions whose identity is in the member set M read at the start
\* of the broadcast, minus session s, and to no other session.
C1_ExactRecipients ==
    [][\A h \in Handlers :
          /\ pc[h] = "bc_snapshot" /\ pc'[h] = "bc_send"
                => bc'[h].targets = Recipients(h) /\ bc'[h].written = {}
          /\ WriteLoop(h)]_vars

\* C1 (amended): the sessions the broadcast writes to are registered sessions
\* whose identity is in M, never session s; a session of that set whose stream
\* handle cannot be duplicated is left out, and every session kept in the
\* snapshot is attempted exactly once.
C1_OnlyRecipients ==
    [][\A h \in Handlers :
          /\ pc[h] = "bc_snapshot" /\ pc'[h] = "bc_send"
                => bc'[h].targets \subseteq Recipients(h) /\ bc'[h].written = {}
          /\ WriteLoop(h)]_vars

\* a broadcast with an excluded session that has written to two recipients
C1_Witness ==
    \E h \in Handlers :
        /\ pc[h] = "bc_send" /\ bc[h].targets = {}
        /\ bc[h].excl # NoId
        /\ Cardinality(bc[h].written) = 2

\* C2 (as stated): in every state the connection counter equals the number of
\* admitted connections whose handler has not yet exited.
C2_CounterIsLiveHandlers ==
    connection_count = Cardinality({h \in Handlers : pc[h] # "idle"})

\* C3 (as stated): with MAX_CONNECTIONS sessions registered a further
\* connection is refused, and after one of the sessions disconnects (its
\* handler leaves the read loop) the listener accepts a connection again.
C3_AcceptsAgainAfterDisconnect ==
    /\ [](Cardinality(DOMAIN clients) >= MAX_CONNECTIONS
            => ~can_accept_connection(connection_count))
    /\ \A h \in Handlers :
          (pc[h] = "cleanup") ~> can_accept_connection(connection_count)

\* the positions at which a handler requests the channel_manager or the
\* voice_manager lock
LockRequests ==
    {"show_channels", "join_general", "bc_users", "join_lock", "voice_lock",
     "voice_join", "leave_lock", "create_lock", "users_lock",
     "cleanup_leave_all", "cleanup_voice"}

\* C4 (as stated): every handler that requests a registry lock eventually
\* obtains it; no handler waits forever on a lock.
C4_LockEventuallyObtained ==
    \A h \in Handlers : \A p \in LockRequests : (pc[h] = p) ~> (pc[h] # p)

\* C5 (as stated): /join <name> of a registered session for an existing
\* channel completes: the caller has left the old channel, is a member of
\* <name>, its current_channel is <name> and it has received
\* "Joined channel: <name>".
C5_JoinCompletes ==
    \A h \in Handlers :
        (pc[h] = "join_old" /\ cid[h] \in DOMAIN clients)
            ~> /\ pc[h] = "replied"
               /\ reply[h].text = "Joined channel"
               /\ contains(channels[reply[h].arg].users, user[h])
               /\ get_client_current_channel(clients, cid[h]) = reply[h].arg

\* C6: a chat line of session A is written only to other sessions: never to A
\* itself and never to a session whose current channel differs from the
\* channel it was sent to, which is A's current channel.
C6_ChatOnlyToOthersInChannel ==
    \A h \in Handlers :
        pc[h] \in {"bc_snapshot", "bc_send"} /\ bc[h].msg.kind = "chat" =>
            /\ bc[h].excl = cid[h]
            /\ cid[h] \in DOMAIN clients => clients[cid[h]].current_channel = bc[h].chan
            /\ \A t \in bc[h].targets \cup bc[h].written :
                  /\ t # cid[h]
                  /\ t \in DOMAIN clients => clients[t].current_channel = bc[h].chan

\* a chat line that has been written to another session
C6_Witness ==
    \E h \in Handlers :
        /\ pc[h] = "bc_send" /\ bc[h].msg.kind = "chat"
        /\ bc[h].written \cap DOMAIN clients # {}

\* identity u is in the member list of some channel of chs
InChannel(chs, u) ==
    \E n \in DOMAIN chs : \E i \in 1..Len(chs[n].users) : chs[n].users[i] = u

\* C7 (as stated): when a handler has finished its cleanup, its session id is
\* absent from the registry, its identity is in no channel's member list and
\* no voice session exists for its identity.
C7_NothingLeftOfIdentity ==
    [][\A h \in Handlers :
          pc[h] = "decrement" /\ pc'[h] = "idle" =>
              /\ cid[h] \notin DOMAIN clients'
              /\ ~InChannel(channels', user[h])
              /\ user[h] \notin DOMAIN sessions']_vars

\* the departure broadcast of cleanup_client is in progress
Announcing(h) ==
    pc[h] \in {"bc_users", "bc_snapshot", "bc_send"} /\ bc[h].ret = "decrement"

\* cleanup_client is past its removal from the registry, from the channels,
\* from the voice registry
PastRemove(h) ==
    pc[h] \in {"cleanup_leave_all", "cleanup_voice", "decrement"} \/ Announcing(h)
PastLeaveAll(h) == pc[h] \in {"cleanup_voice", "decrement"} \/ Announcing(h)
PastLeaveVoice(h) == pc[h] = "decrement" \/ Announcing(h)

\* a step of another connection that authenticated under h's identity
StepOfSameIdentity(h) ==
    \E g \in Handlers \ {h} : user[g] = user[h] /\ pc'[g] # pc[g]

\* C7 (amended): the cleanup removes the session id from the registry, the
\* identity from every member list and the identity's voice session; until
\* the handler ends the session id stays absent, and the identity comes back
\* into a member list or the voice registry only by a step of another
\* connection that authenticated under the same identity.
C7_NothingLeftOfSession ==
    /\ [](\A h \in Handlers : PastRemove(h) => cid[h] \notin DOMAIN clients)
    /\ [][\A h \in Handlers :
            /\ pc[h] = "cleanup_leave_all" /\ pc'[h] # pc[h]
                  => ~InChannel(channels', user[h])
            /\ pc[h] = "cleanup_voice" /\ pc'[h] # pc[h]
                  => user[h] \notin DOMAIN sessions'
            /\ PastLeaveAll(h) /\ ~InChannel(channels, user[h])
                  /\ InChannel(channels', user[h]) => StepOfSameIdentity(h)
            /\ PastLeaveVoice(h) /\ user[h] \notin DOMAIN sessions
                  /\ user[h] \in DOMAIN sessions' => StepOfSameIdentity(h)
            /\ pc[h] = "decrement" /\ pc'[h] = "idle"
                  => cid[h] \notin DOMAIN clients']_vars

\* the cleanup of a session that was still registered is over, others remain
C7_Witness ==
    \E h \in Handlers :
        /\ pc[h] = "decrement" /\ loc[h].current_channel # None
        /\ cid[h] \notin DOMAIN clients /\ DOMAIN clients # {}
        /\ ~InChannel(channels, user[h])
        /\ user[h] \notin DOMAIN sessions

\* C8 (as stated): the cleanup of every session that completed registration
\* broadcasts "*** <identity> left the channel ***" to the channel the session
\* occupied.
C8_DepartureAnnounced ==
    [][\A h \in Handlers :
          pc[h] = "cleanup_voice" /\ pc'[h] # "cleanup_voice" =>
              /\ pc'[h] = "bc_users"
              /\ bc'[h].msg = Msg("left", user[h], <<>>)]_vars

\* C9: a failed write removes exactly that recipient from the registry, a
\* successful write removes nobody, no recipient is attempted twice and the
\* loop goes on until every recipient of the snapshot has been attempted.
C9_FailedWritePrunesOnlyThatRecipient ==
    [][\A h \in Handlers :
          /\ WriteLoop(h)
          /\ pc[h] = "bc_send" /\ pc'[h] = "bc_send" /\ bc'[h] # bc[h] =>
                \E t \in bc[h].targets :
                    /\ bc'[h].written = bc[h].written \cup {t}
                    /\ IF t \in bc'[h].failed
                       THEN /\ DOMAIN clients' = DOMAIN clients \ {t}
                            /\ \A c \in DOMAIN clients' : clients'[c] = clients[c]
                       ELSE /\ clients' = clients
                            /\ bc'[h].failed = bc[h].failed]_vars

\* a broadcast over two recipients is through: one write failed and its
\* recipient is pruned, the other succeeded and its recipient is registered
C9_Witness ==
    \E h \in Handlers :
        /\ pc[h] = "bc_send" /\ bc[h].targets = {}
        /\ bc[h].failed # {} /\ bc[h].failed \cap DOMAIN clients = {}
        /\ bc[h].written \ bc[h].failed # {}
        /\ (bc[h].written \ bc[h].failed) \subseteq DOMAIN clients

\* the replies of the channel and command errors
ErrorTexts ==
    {"Channel does not exist", "Channel already exists",
     "Channel type must be 'text' or 'voice'", "Voice channel does not exist",
     "That's not a voice channel", "You're not in a voice channel",
     "Unknown command"}

Registries == <<clients, channels, sessions>>

\* C10: a command that ends in a channel or command error changes none of the
\* registries: neither reading it, nor deciding the error under the lock, nor
\* writing the reply (the error text, or the failure notice when that write
\* fails); it starts no broadcast and the handler is back at its read loop
\* afterwards.
C10_ErrorLeavesStateUnchanged ==
    [][\A h \in Handlers :
          /\ pc[h] = "loop" /\ pc'[h] \notin {"loop", "cleanup", "bc_users"}
                => UNCHANGED Registries
          /\ pc[h] # "cmd_reply" /\ pc'[h] = "cmd_reply"
                /\ loc'[h].res.text \in ErrorTexts => UNCHANGED Registries
          /\ pc[h] = "cmd_reply" /\ pc'[h] # "cmd_reply"
                /\ loc[h].res.text \in ErrorTexts
                => /\ UNCHANGED Registries
                   /\ pc'[h] = "replied"
                   /\ reply'[h] \in {loc[h].res, CommandFailed}
          /\ pc[h] = "replied" /\ pc'[h] # "replied"
                => UNCHANGED Registries /\ pc'[h] = "loop"]_vars

\* the reply to a /join of a channel that does not exist has been written
C10_Witness ==
    \E h \in Handlers :
        pc[h] = "replied" /\ reply[h].text = "Channel does not exist"

----------------------------------------------------------------------------
(* Arity *)

\* the arities the commands are documented with
RecognizedCommands == KnownCommands \cup {"/quit"}
Arity(command) ==
    CASE command \in {"/join", "/voice"} -> 1
      [] command = "/create" -> 2
      [] OTHER -> 0

\* the usage strings of handle_join_command, handle_voice_command and
\* handle_create_command
Usage(command) ==
    CASE command = "/join" -> "Usage: /join <channel_name>"
      [] command = "/voice" -> "Usage: /voice <channel_name>"
      [] command = "/create" -> "Usage: /create <name> text|voice"
      [] OTHER -> None
UsageTexts == {Usage(c) : c \in {"/join", "/voice", "/create"}}

\* handler h reads a command line in this step (the line is kept in loc')
ReadsCommand(h) ==
    /\ pc[h] = "loop" /\ pc'[h] \notin {"loop", "cleanup", "bc_users"}
    /\ loc'[h].cmd # "chat"

Connection == <<connection_count, chanLock, voiceLock, bc, user, cid>>

----------------------------------------------------------------------------
(* Plain text without a channel *)

\* C12: a plain-text line read from a session that has no current channel or
\* is no longer in the session registry is dropped: the read changes no
\* registry, starts no broadcast, writes nothing to the sender, and the
\* handler is back at its read loop; a broadcast of a chat line starts only
\* from a registered session with a current channel.
C12_ChatWithoutChannelIsNoOp ==
    [][\A h \in Handlers :
          /\ pc[h] = "loop" /\ pc'[h] = "bc_users"
             => /\ cid[h] \in DOMAIN clients
                /\ clients[cid[h]].current_channel # None
                /\ bc'[h].chan = clients[cid[h]].current_channel
          /\ pc[h] = "loop" /\ pc'[h] = "replied" /\ loc'[h].cmd = "chat"
             => /\ \/ cid[h] \notin DOMAIN clients
                   \/ clients[cid[h]].current_channel = None
                /\ UNCHANGED Registries
                /\ UNCHANGED Connection
                /\ UNCHANGED reply
                /\ reply[h] = NoReply
          /\ pc[h] = "replied" /\ pc'[h] # "replied" /\ loc[h].cmd = "chat"
             => /\ pc'[h] = "loop"
                /\ UNCHANGED Registries
                /\ UNCHANGED Connection
                /\ reply'[h] = NoReply]_vars

C12_Witness ==
    \E h \in Handlers :
        /\ pc[h] = "replied" /\ loc[h].cmd = "chat"
        /\ cid[h] \notin DOMAIN clients
        /\ reply[h] = NoReply

----------------------------------------------------------------------------
(* Failed authentication *)

\* C13: a handler whose authentication fails ends without prompting again,
\* and neither the failure nor the return changes the session registry, the
\* channels or the voice registry; the failed handler has no identity and no
\* client id; a session is inserted only by a handler that authenticated,
\* under the identity it authenticated as, hence every session in the
\* registry bears a name of the user database.
C13_FailedAuthLeavesNoSession ==
    [][/\ \A h \in Handlers :
            /\ pc'[h] = "auth_failed" /\ pc[h] # "auth_failed"
               => /\ pc[h] = "start"
                  /\ UNCHANGED Registries
                  /\ user'[h] = NoUser /\ cid'[h] = 0
                  /\ reply'[h].text = "Authentication failed"
            /\ pc[h] = "auth_failed" /\ pc'[h] # "auth_failed"
               => /\ pc'[h] = "idle"
                  /\ UNCHANGED Registries
            /\ pc[h] = "start" /\ pc'[h] \notin {"start", "auth_failed", "idle"}
               => /\ pc'[h] = "client_new"
                  /\ user'[h] \in DOMAIN database'
                  /\ UNCHANGED Registries
       /\ \A c \in DOMAIN clients' \ DOMAIN clients :
            \E h \in Handlers :
                /\ pc[h] = "insert" /\ cid[h] = c
                /\ user[h] # NoUser /\ clients'[c].name = user[h]
                /\ user[h] \in DOMAIN database
       /\ \A n \in DOMAIN channels' :
            \A i \in 1..Len(channels'[n].users) :
                ~contains(channels[n].users, channels'[n].users[i])
                => \E h \in Handlers :
                       /\ pc[h] \notin {"idle", "start", "auth_failed"}
                       /\ user[h] = channels'[n].users[i]]_vars

C13_Witness ==
    \E h \in Handlers :
        /\ pc[h] = "auth_failed" /\ reply[h].arg = "Invalid password"
        /\ cid[h] \notin DOMAIN clients
        /\ \A n \in DOMAIN channels : ~contains(channels[n].users, bob)

----------------------------------------------------------------------------
(* The channel directory *)

\* the member set of a channel
Members(ch) == {ch.users[i] : i \in 1..Len(ch.users)}

\* C14: create_channel on a name that exists returns false and leaves the
\* whole directory as it was, the existing channel's kind and members
\* included; on a new name it returns true and adds a channel of the given
\* kind without members, leaving every other channel as it was.
C14_CreateExistingUnchanged ==
    [][loc'[1].cmd = "create_channel"
          => IF loc'[1].name \in DOMAIN channels
             THEN /\ loc'[1].ret = FALSE
                  /\ DOMAIN channels' = DOMAIN channels
                  /\ \A n \in DOMAIN channels :
                        /\ channels'[n].channel_type = channels[n].channel_type
                        /\ channels'[n].users = channels[n].users
             ELSE /\ loc'[1].ret = TRUE
                  /\ DOMAIN channels' = DOMAIN channels \cup {loc'[1].name}
                  /\ channels'[loc'[1].name].channel_type = loc'[1].channel_type
                  /\ Members(channels'[loc'[1].name]) = {}
                  /\ \A n \in DOMAIN channels : channels'[n] = channels[n]]_vars

C14_Witness ==
    /\ loc[1].cmd = "create_channel" /\ loc[1].ret = FALSE
    /\ loc[1].name = "lobby" /\ loc[1].channel_type = Text
    /\ channels["lobby"].channel_type = Voice
    /\ Members(channels["lobby"]) # {}

\* C15: a channel that exists keeps existing with the kind it has, whatever
\* the server does next.
C15_ChannelsStayWithTheirKind ==
    [][\A n \in DOMAIN channels :
          /\ n \in DOMAIN channels'
          /\ channels'[n].channel_type = channels[n].channel_type]_vars

C15_Witness ==
    /\ "lobby" \in DOMAIN channels
    /\ \E h \in Handlers : pc[h] = "idle"
    /\ \E n \in DOMAIN channels : Members(channels[n]) = {}

\* C16: after leave_all_channels(u), u is a member of no channel, every other
\* identity is a member of exactly the channels it was a member of, no
\* channel appears, disappears or changes kind, and list_channels reports
\* for every channel the number of members that remain; list_channels
\* always reports each channel once with its kind and its member count.
C16_LeaveAllRemovesOnlyThatIdentity ==
    [][/\ loc'[1].cmd = "leave_all_channels"
          => /\ DOMAIN channels' = DOMAIN channels
             /\ \A n \in DOMAIN channels :
                   /\ Members(channels'[n]) = Members(channels[n]) \ {loc'[1].username}
                   /\ channels'[n].channel_type = channels[n].channel_type
                   /\ <<n, channels[n].channel_type,
                         Cardinality(Members(channels[n]) \ {loc'[1].username})>>
                         \in list_channels(channels')
             /\ Cardinality(list_channels(channels')) = Cardinality(DOMAIN channels)
       /\ loc'[1].cmd = "list_channels"
          => /\ \A n \in DOMAIN channels :
                   <<n, channels[n].channel_type, Cardinality(Members(channels[n]))>>
                       \in loc'[1].ret
             /\ Cardinality(loc'[1].ret) = Cardinality(DOMAIN channels)]_vars

C16_Witness ==
    /\ loc[1].cmd = "leave_all_channels" /\ loc[1].username = alice
    /\ Members(channels["general"]) = {bob}
    /\ "lobby" \in DOMAIN channels
    /\ Members(channels["lobby"]) = {bob}
    /\ \A n \in DOMAIN channels : alice \notin Members(channels[n])

\* C17 as stated: after every mutating operation of the directory that
\* completes with a writable store, the persisted directory equals the one in
\* memory, member lists included.
C17_PersistedEqualsInMemory ==
    [][/\ loc'[1].cmd \in {"join_channel", "leave_channel", "leave_all_channels"}
          /\ channels' # channels
          => config_file' = channels'
       /\ loc'[1].cmd = "create_channel" /\ channels' # channels /\ loc'[1].saved
          => config_file' = channels']_vars

----------------------------------------------------------------------------
(* Voice sessions *)

\* C18: toggle_deafen on an identity with a voice session flips deafened and
\* returns the new value; when it turns deafened on, muted is on afterwards,
\* when it turns deafened off, muted is what it was; nothing else of any
\* session changes.  toggle_deafen and toggle_mute on an identity without a
\* voice session return None and change no session.
C18_DeafenForcesMute ==
    [][/\ loc'[1].cmd = "toggle_deafen" /\ loc'[1].username \in DOMAIN sessions
          => /\ DOMAIN sessions' = DOMAIN sessions
             /\ sessions'[loc'[1].username].is_deafened
                    = ~sessions[loc'[1].username].is_deafened
             /\ loc'[1].ret = Ok(sessions'[loc'[1].username].is_deafened)
             /\ sessions'[loc'[1].username].is_muted
                    = IF sessions'[loc'[1].username].is_deafened THEN TRUE
                      ELSE sessions[loc'[1].username].is_muted
             /\ sessions'[loc'[1].username].channel = sessions[loc'[1].username].channel
             /\ \A u \in DOMAIN sessions \ {loc'[1].username} : sessions'[u] = sessions[u]
       /\ loc'[1].cmd \in {"toggle_deafen", "toggle_mute"}
             /\ loc'[1].username \notin DOMAIN sessions
          => loc'[1].ret = Err(None) /\ sessions' = sessions]_vars

\* un-deafened, and still muted
C18_Witness ==
    /\ loc[1].cmd = "toggle_deafen" /\ loc[1].ret = Ok(FALSE)
    /\ sessions[loc[1].username].is_muted
    /\ ~sessions[loc[1].username].is_deafened

\* the rejections of handle_voice_command
VoiceRejections == {"Voice channel does not exist", "That's not a voice channel"}

----------------------------------------------------------------------------
(* Register, then login *)

\* the credentials register accepts
ValidUsername(username) ==
    /\ Len(username) \in 1..USERNAME_MAX
    /\ \A i \in 1..Len(username) : username[i] \in UsernameChars
ValidPassword(password) == Len(password) \in PASSWORD_MIN..PASSWORD_MAX

\* C20: after register(u, p) with a valid u and p and u not in the database,
\* login(u, p) returns the user named u, and register returned that user
\* when the database file was written; login leaves the database as it is.
C20_RegisterThenLogin ==
    [][/\ loc'[1].cmd = "register"
             /\ ValidUsername(loc'[1].username) /\ ValidPassword(loc'[1].password)
             /\ loc'[1].username \notin DOMAIN database
          => /\ login(database', loc'[1].username, loc'[1].password)
                    = Ok(loc'[1].username)
             /\ loc'[1].saved => loc'[1].ret = Ok(loc'[1].username)
       /\ loc'[1].cmd = "login" => database' = database]_vars

\* a login that succeeded for the longest username allowed, which some
\* register before it put into the database
C20_Witness ==
    /\ loc[1].cmd = "login"
    /\ Len(loc[1].username) = USERNAME_MAX
    /\ loc[1].ret = Ok(loc[1].username)
    /\ DOMAIN database = {loc[1].username}

----------------------------------------------------------------------------
(* Register: an existing username, a failed save *)

\* C21: register(u, p) with u in the database and a well-formed p returns
\* "Username already exists" and leaves the database as it is: the hash
\* stored for u and every other entry; the password u registered with still
\* logs in and p, when it is another one, does not.
C21_RegisterExistingUnchanged ==
    [][loc'[1].cmd = "register" /\ loc'[1].username \in DOMAIN database
             /\ ValidPassword(loc'[1].password)
          => /\ loc'[1].ret = Err("Username already exists")
             /\ DOMAIN database' = DOMAIN database
             /\ \A u \in DOMAIN database : database'[u] = database[u]
             /\ login(database', loc'[1].username, database[loc'[1].username].digest)
                    = Ok(loc'[1].username)
             /\ loc'[1].password # database[loc'[1].username].digest
                    => login(database', loc'[1].username, loc'[1].password)
                          = Err("Invalid password")]_vars

C21_Witness ==
    /\ loc[1].cmd = "register" /\ loc[1].ret = Err("Username already exists")
    /\ loc[1].username = alice /\ loc[1].password = hunter22
    /\ DOMAIN database = {alice, bob}
    /\ database[alice].digest = password1

\* C25 as stated: a register call that returns an error, a failure to write
\* the database file included, leaves the user table as it was: a username
\* that was not registered is not registered afterwards, and a login with
\* the credentials answers "Username not found".
C25_FailedRegisterLeavesTable ==
    [][loc'[1].cmd = "register" /\ ~loc'[1].ret.ok
          => /\ database' = database
             /\ loc'[1].username \notin DOMAIN database
                   /\ ValidUsername(loc'[1].username) /\ ValidPassword(loc'[1].password)
                => login(database', loc'[1].username, loc'[1].password)
                      = Err("Username not found")]_vars

----------------------------------------------------------------------------
(* Locks *)

\* the positions at which a handler requests the channel_manager lock, the
\* voice_manager lock, and the positions whose step locks the clients map
\* (a guard that lives for that step only)
ChannelRequests ==
    {"show_channels", "join_general", "bc_users", "join_lock", "voice_lock",
     "create_lock", "users_lock", "cleanup_leave_all"}
VoiceRequests == {"voice_join", "leave_lock", "cleanup_voice"}
SessionRequests ==
    {"insert", "bc_snapshot", "cleanup", "cleanup_remove", "join_old", "join_new"}

\* handler h holds a guard that outlives the step that took it
HoldsLock(h) == chanLock = h \/ voiceLock = h

\* C22 as stated: no handler writes to a client's stream or to the channels
\* file while it holds a registry lock; every command handler has released
\* its lock before it sends its reply or broadcasts.
C22_NoIOUnderLock ==
    [][\A h \in Handlers :
          /\ reply'[h] # reply[h] /\ reply'[h] # NoReply => ~HoldsLock(h)
          /\ pc[h] = "bc_send" /\ pc'[h] = "bc_send" /\ bc'[h] # bc[h] => ~HoldsLock(h)
          /\ pc'[h] = "bc_users" /\ pc[h] # "bc_users" => chanLock' # h /\ voiceLock' # h
          /\ config_file' # config_file /\ pc'[h] # pc[h] => chanLock' # h]_vars

WaitsFor(h, g) ==
    \/ pc[h] \in ChannelRequests /\ chanLock = g
    \/ pc[h] \in VoiceRequests /\ voiceLock = g

----------------------------------------------------------------------------
(* Shared identities, stale members *)

\* handler h is in the middle of its session set-up, of a /join or of its
\* cleanup, the broadcasts they make included
SetupPositions ==
    {"start", "auth_failed", "client_new", "show_channels", "show_write",
     "join_general", "insert"}
JoinPositions == {"join_lock", "join_old", "join_new", "join_reply"}
CleanupPositions ==
    {"cleanup", "cleanup_remove", "cleanup_leave_all", "cleanup_voice", "decrement"}
InSetupJoinOrCleanup(h) ==
    \/ pc[h] \in SetupPositions /\ loc[h].cmd \in {None, "setup"}
    \/ pc[h] \in JoinPositions \cup CleanupPositions
    \/ pc[h] \in {"cmd_reply", "replied"} /\ loc[h].cmd = "join"
    \/ /\ pc[h] \in {"bc_users", "bc_snapshot", "bc_send"}
       /\ bc[h].ret \in {"help", "join_new", "join_done", "decrement"}

\* C24 as stated: when no handler is in the middle of a session set-up, a
\* /join or a cleanup, every registered session is a member of its current
\* channel, whatever other sessions of the same identity have done.
C24_SessionsAreMembers ==
    (\A h \in Handlers : ~InSetupJoinOrCleanup(h))
    => \A c \in DOMAIN clients :
          clients[c].current_channel # None
          => /\ clients[c].current_channel \in DOMAIN channels
             /\ contains(channels[clients[c].current_channel].users, clients[c].name)

\* C26 as stated, for the pruning: when a broadcast that removed sessions
\* from the registry after failed writes returns, the identity of each
\* removed session (here those whose handler still waits in its read, so
\* that no cleanup of its own is under way) is in no member list, unless
\* another registered session has that identity.
C26_NoStaleMembers ==
    [][\A h \in Handlers :
          pc[h] = "bc_send" /\ pc'[h] # "bc_send"
          => \A g \in Handlers :
                cid[g] \in bc[h].failed /\ cid[g] \notin DOMAIN clients'
                      /\ pc[g] = "loop"
                => \/ ~InChannel(channels', user[g])
                   \/ \E c \in DOMAIN clients' : clients'[c].name = user[g]]_vars

====
